---- MODULE Spec2Model ----
(***************************************************************************)
(* A model of the MTIE calculator (src/src/lib.rs): the selector `run`,    *)
(* the two engines `mtie_complete` and `mtie_fast`, and the validator      *)
(* `check_monotomically_increasing`.                                       *)
(*                                                                         *)
(* Numbers.  A TIE sample is an f64 in the code; the model uses integers,  *)
(* on which subtraction, abs and the comparisons are exact (no NaN, no     *)
(* rounding).  A usize value v is written [hi |-> h, lo |-> l] with        *)
(* v = h * 2^32 + l and 0 <= l < 2^31, so that `as u32` (which keeps the   *)
(* value modulo 2^32) can be modelled although TLC's integers end below    *)
(* 2^31.                                                                   *)
(*                                                                         *)
(* Vectors.  A Vec<f64> is [len |-> usize, item |-> f] where f is a        *)
(* function on 0..m-1 holding the first m elements (Rust's 0-based         *)
(* indices are kept).  m equals the length for the small vectors; for a    *)
(* vector too long to write down only a prefix is held, and an engine      *)
(* that would read past the prefix returns the outcome "elided".           *)
(* The pyramid rows and the pyramids are functions on 0..m-1 as well; the  *)
(* returned Vec<(u32, f64)> is a sequence of <<tau, mtie_value>> whose     *)
(* Rust index i is the sequence index i + 1.                               *)
(***************************************************************************)
EXTENDS Integers, Sequences, FiniteSets

VARIABLES pc, entry, engine, tie, mtie, panic, elided, diffs, a_M, a_m, stdout

vars == <<pc, entry, engine, tie, mtie, panic, elided, diffs, a_M, a_m, stdout>>

----------------------------------------------------------------------------
(* Bounds of the model *)

\* the vectors of at most MaxLen samples, each in 0..MaxVal, are all tried
MaxLen == 6
MaxVal == 2
\* the two-level and the arithmetic vectors have at most MaxLong samples
MaxLong == 8
\* the vectors of 2^32 + n samples are tried for n <= MaxHuge
MaxHuge == 4
\* arithmetic inputs have a common difference in -MaxStep..MaxStep
MaxStep == 2
\* vector lengths within SizeMargin of the size ceiling are tried
SizeMargin == 3
\* the validator is tried on sequences of at most MaxPairs pairs
MaxPairs == 3
\* ... whose tau is in 1..MaxTau
MaxTau == 3

----------------------------------------------------------------------------
(* Integers of the code's widths *)

\* usize value below 2^32
Usize(n) ==
    [hi |-> 0, lo |-> n]

\* usize > integer literal (lib.rs:117)
usize_gt(c, n) ==
    c.hi > 0 \/ c.lo > n

\* usize <= integer literal (lib.rs:17)
usize_le(c, n) ==
    c.hi = 0 /\ c.lo <= n

\* `x as u32` on a usize: the value modulo 2^32 (lib.rs:151)
as_u32(c) ==
    c.lo

RECURSIVE pow(_, _)
\* 2_u32.pow(k)
pow(b, k) ==
    IF k = 0 THEN 1 ELSE b * pow(b, k - 1)

\* f64::abs
abs(x) ==
    IF x < 0 THEN -x ELSE x

----------------------------------------------------------------------------
(* Vec *)

\* Vec::new()
VecNew ==
    <<>>

\* v.len() of a row held in full
RowLen(v) ==
    Cardinality(DOMAIN v)

\* v.push(x)
VecPush(v, x) ==
    [j \in 0..RowLen(v) |-> IF j < RowLen(v) THEN v[j] ELSE x]

\* a Vec<f64> all of whose elements are written down
FullVec(f) ==
    [len |-> Usize(RowLen(f)), item |-> f]

\* the first n elements of v are held by the model
Held(v, n) ==
    n <= RowLen(v.item)

\* outcome of a call: no panic
NoPanic ==
    [kind |-> "none", args |-> <<>>]

\* what a call hands back: the panic it ended in (if any), the vector it
\* returned, whether the model could follow it, the number of differences the
\* complete engine computed, and the fast engine's pyramid
Outcome(p, m, e, d, aM, am) ==
    [panic |-> p, mtie |-> m, elided |-> e, diffs |-> d, a_M |-> aM, a_m |-> am]

----------------------------------------------------------------------------
(* check_monotomically_increasing, lib.rs:216-228 *)

\* `a < b` on (u32, f64): PartialOrd of tuples is lexicographic, the first
\* components decide unless they are equal (lib.rs:218)
tuple_lt(a, b) ==
    a[1] < b[1] \/ (a[1] = b[1] /\ a[2] < b[2])

\* the windows(2) loop: panics at the first window with window[1] < window[0]
check_monotomically_increasing(m) ==
    LET bad == {index \in 0..(Len(m) - 2) : tuple_lt(m[index + 2], m[index + 1])}
    IN  IF bad = {}
        THEN NoPanic
        ELSE LET index == CHOOSE x \in bad : \A y \in bad : x <= y
             IN  [kind |-> "not_monotonic",
                  args |-> <<index, index + 1, m[index + 1][2], m[index + 2][2]>>]

----------------------------------------------------------------------------
(* mtie_complete, lib.rs:114-143 *)

MAX_DATA_SET_SIZE == 100000

\* mutant: the ceiling itself is refused (`>=` for `>`)
size_exceeded_at(count) ==
    usize_gt(count, MAX_DATA_SET_SIZE - 1)

\* lib.rs:117
size_exceeded(count) ==
    usize_gt(count, MAX_DATA_SET_SIZE)

\* mutant: the difference without .abs()
difference_signed(right_value, left_value) ==
    right_value - left_value

\* lib.rs:129
difference_of(right_value, left_value) ==
    abs(right_value - left_value)

\* mutant: the last window start is left out
scan_end_short(count, tau) ==
    count - tau - 1

\* exclusive end of `0..count - tau` (lib.rs:126)
scan_end(count, tau) ==
    count - tau

\* mutant: the maximum is not seeded with the previous tau's
unseeded(prev_maximum, maximum) ==
    maximum

\* lib.rs:134-136
seeded(prev_maximum, maximum) ==
    IF prev_maximum > maximum THEN prev_maximum ELSE maximum

\* mutant: the last tau is left out
taus_end_short(count) ==
    count - 1

\* exclusive end of `1..count` (lib.rs:124)
taus_end(count) ==
    count

RECURSIVE scan(_, _, _, _, _)
\* the inner loop (lib.rs:126-133), from interval_start on
scan(samples, count, tau, interval_start, maximum) ==
    IF interval_start >= scan_end(count, tau)
    THEN maximum
    ELSE LET left_value == samples[interval_start]
             right_value == samples[interval_start + tau]
             difference == difference_of(right_value, left_value)
         IN  scan(samples, count, tau, interval_start + 1,
                  IF difference > maximum THEN difference ELSE maximum)

RECURSIVE complete_loop(_, _, _, _)
\* the outer loop (lib.rs:124-139), from tau on; st holds mtie, prev_maximum
\* and the number of differences computed so far
complete_loop(samples, count, tau, st) ==
    IF tau >= taus_end(count)
    THEN st
    ELSE LET maximum == seeded(st.prev_maximum, scan(samples, count, tau, 0, 0))
         IN  complete_loop(samples, count, tau + 1,
                 [mtie |-> Append(st.mtie, <<tau, maximum>>),
                  prev_maximum |-> maximum,
                  diffs |-> st.diffs + scan_end(count, tau)])

mtie_complete(v) ==
    LET count == v.len
    IN  IF size_exceeded(count)
        THEN Outcome([kind |-> "too_large", args |-> <<MAX_DATA_SET_SIZE, count>>],
                     <<>>, FALSE, 0, VecNew, VecNew)
        ELSE IF ~Held(v, count.lo)
        THEN Outcome(NoPanic, <<>>, TRUE, 0, VecNew, VecNew)
        ELSE LET st == complete_loop(v.item, count.lo, 1,
                           [mtie |-> <<>>, prev_maximum |-> 0, diffs |-> 0])
                 checked == check_monotomically_increasing(st.mtie)
             IN  Outcome(checked, IF checked = NoPanic THEN st.mtie ELSE <<>>, FALSE,
                         st.diffs, VecNew, VecNew)

----------------------------------------------------------------------------
(* mtie_fast, lib.rs:150-214 *)

RECURSIVE floor_log2(_)
\* the integer part of log2(n), n >= 1
floor_log2(n) ==
    IF n < 2 THEN 0 ELSE 1 + floor_log2(n \div 2)

\* `(N as f64).log2() as u32` (lib.rs:152): log2(0) is -inf, which the cast
\* saturates to 0; for N >= 1 the cast truncates the logarithm
k_max_of(N) ==
    IF N = 0 THEN 0 ELSE floor_log2(N)

\* mutant: the last level is left out
levels_end_short(k_max) ==
    k_max

\* exclusive end of `1..k_max + 1` (lib.rs:161, 198)
levels_end(k_max) ==
    k_max + 1

\* lib.rs:173, 185
max_of(val1, val2) ==
    IF val1 > val2 THEN val1 ELSE val2

\* lib.rs:174, 188
min_of(val1, val2) ==
    IF val1 < val2 THEN val1 ELSE val2

\* mutant: the second half is read one entry early
p_of_short(k) ==
    pow(2, k - 1) - 1

\* lib.rs:180
p_of(k) ==
    pow(2, k - 1)

\* mutant: the last window start is left out
i_max_short(N, k) ==
    N - pow(2, k)

\* lib.rs:168, 179, 199 (pow(2, k) <= N where it is used, see build)
i_max_of(N, k) ==
    N - pow(2, k) + 1

\* what reading index j of a vector does: "no" is a read of a held element;
\* a read at or past the length is Rust's index-out-of-bounds panic
read(v, j) ==
    IF j < RowLen(v.item) THEN "no"
    ELSE IF v.len.hi > 0 \/ j < v.len.lo THEN "unheld"
    ELSE "index_oob"

\* a row with its dummy entry at index 0 (lib.rs:163-166)
new_row ==
    [M |-> VecPush(VecNew, 0), m |-> VecPush(VecNew, 0), stop |-> "no"]

RECURSIVE level1_loop(_, _, _, _)
\* the loop of level 1 (lib.rs:169-177), from i on
level1_loop(samples, i, i_max, row) ==
    IF i >= i_max + 1 \/ row.stop # "no"
    THEN row
    ELSE IF read(samples, i - 1) # "no"
    THEN [row EXCEPT !.stop = read(samples, i - 1)]
    ELSE IF read(samples, i) # "no"
    THEN [row EXCEPT !.stop = read(samples, i)]
    ELSE LET val1 == samples.item[i - 1]
             val2 == samples.item[i]
         IN  level1_loop(samples, i + 1, i_max,
                 [M |-> VecPush(row.M, max_of(val1, val2)),
                  m |-> VecPush(row.m, min_of(val1, val2)),
                  stop |-> "no"])

RECURSIVE levelk_loop(_, _, _, _, _, _)
\* the loop of a level k > 1 (lib.rs:181-191), from i on; below_M and below_m
\* are a_M[k - 1] and a_m[k - 1]
levelk_loop(below_M, below_m, p, i, i_max, row) ==
    IF i >= i_max + 1 \/ row.stop # "no"
    THEN row
    ELSE IF ~(i \in DOMAIN below_M /\ i + p \in DOMAIN below_M
              /\ i \in DOMAIN below_m /\ i + p \in DOMAIN below_m)
    THEN [row EXCEPT !.stop = "index_oob"]
    ELSE LET max1 == below_M[i]
             max2 == below_M[i + p]
             min1 == below_m[i]
             min2 == below_m[i + p]
         IN  levelk_loop(below_M, below_m, p, i + 1, i_max,
                 [M |-> VecPush(row.M, max_of(max1, max2)),
                  m |-> VecPush(row.m, min_of(min1, min2)),
                  stop |-> "no"])

RECURSIVE build(_, _, _, _, _)
\* the loop over the levels (lib.rs:161-195), from k on; pyr holds a_M, a_m
\* and how the loop stopped.  `N - 2^k` below zero is an overflow panic in a
\* debug build; a release build wraps and panics on the index instead
build(samples, N, k, k_max, pyr) ==
    IF k >= levels_end(k_max) \/ pyr.stop # "no"
    THEN pyr
    ELSE IF pow(2, k) > N
    THEN [pyr EXCEPT !.stop = "arith_overflow"]
    ELSE LET i_max == i_max_of(N, k)
             row == IF k = 1
                    THEN level1_loop(samples, 1, i_max, new_row)
                    ELSE levelk_loop(pyr.a_M[k - 1], pyr.a_m[k - 1], p_of(k), 1,
                                     i_max, new_row)
         IN  build(samples, N, k + 1, k_max,
                   [a_M |-> VecPush(pyr.a_M, row.M),
                    a_m |-> VecPush(pyr.a_m, row.m),
                    stop |-> row.stop])

RECURSIVE widest(_, _, _, _, _)
\* the loop over the window starts of one level (lib.rs:203-208), from i on
widest(row_M, row_m, i, i_max, mtie_k) ==
    IF i >= i_max + 1
    THEN [mtie_k |-> mtie_k, stop |-> "no"]
    ELSE IF ~(i \in DOMAIN row_M /\ i \in DOMAIN row_m)
    THEN [mtie_k |-> mtie_k, stop |-> "index_oob"]
    ELSE widest(row_M, row_m, i + 1, i_max,
                IF row_M[i] - row_m[i] > mtie_k THEN row_M[i] - row_m[i] ELSE mtie_k)

RECURSIVE collect(_, _, _, _, _)
\* the loop that fills mtie (lib.rs:198-210), from k on
collect(pyr, N, k, k_max, st) ==
    IF k >= levels_end(k_max) \/ st.stop # "no"
    THEN st
    ELSE IF pow(2, k) > N
    THEN [st EXCEPT !.stop = "arith_overflow"]
    ELSE IF ~(k \in DOMAIN pyr.a_M /\ k \in DOMAIN pyr.a_m)
    THEN [st EXCEPT !.stop = "index_oob"]
    ELSE IF ~(1 \in DOMAIN pyr.a_M[k] /\ 1 \in DOMAIN pyr.a_m[k])
    THEN [st EXCEPT !.stop = "index_oob"]
    ELSE LET i_max == i_max_of(N, k)
             tau == pow(2, k) - 1
             w == widest(pyr.a_M[k], pyr.a_m[k], 2, i_max,
                         pyr.a_M[k][1] - pyr.a_m[k][1])
         IN  collect(pyr, N, k + 1, k_max,
                     [mtie |-> IF w.stop = "no"
                               THEN Append(st.mtie, <<tau, w.mtie_k>>)
                               ELSE st.mtie,
                      stop |-> w.stop])

mtie_fast(v) ==
    LET N == as_u32(v.len)
        k_max == k_max_of(N)
        \* the dummy rows at index 0 (lib.rs:158-159)
        pyr == build(v, N, 1, k_max,
                     [a_M |-> VecPush(VecNew, VecNew),
                      a_m |-> VecPush(VecNew, VecNew),
                      stop |-> "no"])
        st == IF pyr.stop = "no"
              THEN collect(pyr, N, 1, k_max, [mtie |-> <<>>, stop |-> "no"])
              ELSE [mtie |-> <<>>, stop |-> pyr.stop]
        checked == check_monotomically_increasing(st.mtie)
    IN  IF st.stop = "unheld"
        THEN Outcome(NoPanic, <<>>, TRUE, 0, VecNew, VecNew)
        ELSE IF st.stop # "no"
        THEN Outcome([kind |-> st.stop, args |-> <<>>], <<>>, FALSE, 0,
                     pyr.a_M, pyr.a_m)
        ELSE Outcome(checked, IF checked = NoPanic THEN st.mtie ELSE <<>>, FALSE, 0,
                     pyr.a_M, pyr.a_m)

----------------------------------------------------------------------------
(* run, lib.rs:11-26 *)

\* mutant: the threshold is one too high
use_complete_late(sample_count) ==
    usize_le(sample_count, 100001)

\* lib.rs:17
use_complete(sample_count) ==
    usize_le(sample_count, 100000)

\* print_mtie (lib.rs:107-111): one line per pair, the interval and the value
print_mtie(m) ==
    [n \in 1..Len(m) |-> [interval |-> m[n][1], val |-> m[n][2]]]

----------------------------------------------------------------------------
(* The inputs *)

\* the vectors of n samples in 0..MaxVal
Vectors(n) ==
    {FullVec(f) : f \in [0..(n - 1) -> 0..MaxVal]}

\* the arithmetic vector a, a + m, a + 2m, ... of n samples
Arithmetic(a, m, n) ==
    FullVec([j \in 0..(n - 1) |-> a + m * j])

\* the two-level vectors of n samples, each 0 or MaxVal (a signal that steps
\* between two values, as in test_step)
TwoLevel(n) ==
    {FullVec(f) : f \in [0..(n - 1) -> {0, MaxVal}]}

\* the vectors of 2^32 + n samples, of which the first n are held
Huge(n) ==
    {[len |-> [hi |-> 1, lo |-> n], item |-> v.item] : v \in Vectors(n)}

\* the vectors of n samples none of which is held, n near the size ceiling
NearCeiling ==
    {[len |-> Usize(n), item |-> VecNew] :
        n \in (MAX_DATA_SET_SIZE - SizeMargin)..(MAX_DATA_SET_SIZE + SizeMargin)}

\* the sequences of at most MaxPairs pairs the validator is tried on
PairSeqs ==
    UNION {[1..n -> (1..MaxTau) \X (0..MaxVal)] : n \in 0..MaxPairs}

Inputs ==
    UNION {Vectors(n) : n \in 0..MaxLen}
    \cup UNION {TwoLevel(n) : n \in 0..MaxLong}
    \cup {Arithmetic(a, m, n) : a \in 0..MaxVal, m \in (-MaxStep)..MaxStep, n \in 0..MaxLong}
    \cup UNION {Huge(n) : n \in 0..MaxHuge}
    \cup NearCeiling

----------------------------------------------------------------------------
(* The state machine: one call of an entry point on one input.  tie is the  *)
(* vector of samples handed to run or to an engine; mtie is the vector of   *)
(* pairs handed to the validator before a call of it, and the vector an     *)
(* engine returned after a call of an engine.                               *)

Init ==
    /\ pc = "ready"
    /\ entry = "none"
    /\ engine = "none"
    /\ \/ tie \in Inputs /\ mtie = <<>>
       \/ tie = FullVec(VecNew) /\ mtie \in PairSeqs
    /\ panic = NoPanic
    /\ elided = FALSE
    /\ diffs = 0
    /\ a_M = VecNew
    /\ a_m = VecNew
    /\ stdout = <<>>

\* the outcome o of a call becomes the state
Return(o) ==
    /\ pc' = "done"
    /\ mtie' = o.mtie
    /\ panic' = o.panic
    /\ elided' = o.elided
    /\ diffs' = o.diffs
    /\ a_M' = o.a_M
    /\ a_m' = o.a_m

\* run() on the parsed input (lib.rs:16-23)
Run ==
    /\ pc = "ready"
    /\ mtie = <<>>
    /\ entry' = "run"
    /\ LET sample_count == tie.len
           o == IF use_complete(sample_count) THEN mtie_complete(tie) ELSE mtie_fast(tie)
       IN  /\ engine' = IF use_complete(sample_count) THEN "complete" ELSE "fast"
           /\ Return(o)
           /\ stdout' = IF o.panic = NoPanic THEN print_mtie(o.mtie) ELSE <<>>
    /\ UNCHANGED tie

\* a direct call of mtie_complete, as the unit tests make
CallComplete ==
    /\ pc = "ready"
    /\ mtie = <<>>
    /\ entry' = "mtie_complete"
    /\ engine' = "complete"
    /\ Return(mtie_complete(tie))
    /\ UNCHANGED <<tie, stdout>>

\* a direct call of mtie_fast, as the unit tests make
CallFast ==
    /\ pc = "ready"
    /\ mtie = <<>>
    /\ entry' = "mtie_fast"
    /\ engine' = "fast"
    /\ Return(mtie_fast(tie))
    /\ UNCHANGED <<tie, stdout>>

\* a call of check_monotomically_increasing on a vector of pairs
CallCheck ==
    /\ pc = "ready"
    /\ tie = FullVec(VecNew)
    /\ entry' = "check"
    /\ pc' = "done"
    /\ panic' = check_monotomically_increasing(mtie)
    /\ UNCHANGED <<engine, tie, mtie, elided, diffs, a_M, a_m, stdout>>

Next ==
    \/ Run
    \/ CallComplete
    \/ CallFast
    \/ CallCheck

Spec ==
    Init /\ [][Next]_vars

----------------------------------------------------------------------------
(* What the properties speak of *)

\* the call of entry point e has returned or panicked
Done(e) ==
    pc = "done" /\ entry = e

\* an engine was called, directly or by run, and the model followed the call
Ran(e) ==
    pc = "done" /\ entry \in {"run", "mtie_complete", "mtie_fast"} /\ engine = e
    /\ ~elided

\* the input has fewer than 2^32 samples, all of them held
Plain ==
    tie.len.hi = 0 /\ Held(tie, tie.len.lo)

\* the number of samples of a Plain input
Count ==
    tie.len.lo

\* the largest and the smallest of a non-empty finite set of integers
Largest(S) ==
    CHOOSE x \in S : \A y \in S : y <= x

Smallest(S) ==
    CHOOSE x \in S : \A y \in S : x <= y

\* the samples at the 0-based positions from..to
Window(from, to) ==
    {tie.item[j] : j \in from..to}

\* peak-to-peak excursion of the window of tau + 1 samples that starts at start
PeakToPeak(start, tau) ==
    Largest(Window(start, start + tau)) - Smallest(Window(start, start + tau))

\* the MTIE at tau by its definition: the widest window of tau + 1 samples
TrueMtie(tau) ==
    Largest({PeakToPeak(start, tau) : start \in 0..(Count - tau - 1)})

\* the largest endpoint difference over the windows of tau + 1 samples
EndpointMtie(tau) ==
    Largest({Largest({tie.item[start + tau] - tie.item[start],
                      tie.item[start] - tie.item[start + tau]}) :
                 start \in 0..(Count - tau - 1)})

\* the mtie_value column of a vector of pairs never decreases
NonDecreasing(m) ==
    \A n \in 1..(Len(m) - 1) : m[n + 1][2] >= m[n][2]

\* the tau column of a vector of pairs strictly increases
TauIncreasing(m) ==
    \A n \in 1..(Len(m) - 1) : m[n + 1][1] > m[n][1]

\* k is the integer part of log2(n)
IsFloorLog2(n, k) ==
    pow(2, k) <= n /\ n < pow(2, k + 1)

----------------------------------------------------------------------------
(* The properties *)

\* C1 (as claimed): on a vector of pairs whose tau strictly increases the
\* validator panics exactly when some adjacent pair has a smaller mtie_value
\* after a larger one.
C1_ValidatorRejectsDecrease ==
    (Done("check") /\ TauIncreasing(mtie))
        => (panic.kind = "not_monotonic" <=> ~NonDecreasing(mtie))

\* C2: for every tau in 1..N-1 the pair the complete engine returns at tau
\* holds the peak-to-peak MTIE, the widest excursion over all windows of
\* tau + 1 consecutive samples.
C2_CompleteIsPeakToPeak ==
    (Ran("complete") /\ Plain /\ Count <= 100000)
        => \A tau \in 1..(Count - 1) :
               tau \in DOMAIN mtie /\ mtie[tau] = <<tau, TrueMtie(tau)>>

\* C2 witness: a returned value that exceeds the largest endpoint difference
\* of its own tau.
C2_Witness ==
    /\ Ran("complete") /\ Plain
    /\ \E tau \in 1..(Count - 1) :
           tau \in DOMAIN mtie /\ mtie[tau][2] > EndpointMtie(tau)

\* C3: the vector either engine returns is non-decreasing in mtie_value.
C3_OutputsNonDecreasing ==
    (Ran("complete") \/ Ran("fast")) => NonDecreasing(mtie)

\* C3 witness: the complete engine returned a value that only the seed kept
\* from falling below its predecessor, at a tau both engines report.
C3_Witness ==
    /\ Ran("complete") /\ Plain /\ Len(mtie) >= 3
    /\ EndpointMtie(3) < mtie[2][2]
    /\ mtie_fast(tie).mtie[2][2] > mtie_fast(tie).mtie[1][2]

\* C4: on N <= 100,000 samples the complete engine does not fail and returns
\* N - 1 pairs (none for N <= 1) whose taus are 1, 2, ..., N - 1 in order.
C4_CompleteShape ==
    (Ran("complete") /\ Plain /\ Count <= 100000)
        => /\ panic = NoPanic
           /\ Len(mtie) = (IF Count >= 1 THEN Count - 1 ELSE 0)
           /\ \A n \in 1..Len(mtie) : mtie[n][1] = n

\* C4 witness: a call on at least four samples has returned.
C4_Witness ==
    Ran("complete") /\ Plain /\ Count >= 4 /\ Len(mtie) = Count - 1

\* C5: the complete engine fails with the size-exceeded error exactly when it
\* is called with more than 100,000 samples; the error carries the ceiling
\* and the sample count, and no MTIE value has been computed.
C5_SizeCeiling ==
    (pc = "done" /\ engine = "complete")
        => /\ panic.kind = "too_large" <=> (tie.len.hi > 0 \/ tie.len.lo > 100000)
           /\ panic.kind = "too_large"
                 => /\ panic.args = <<100000, tie.len>>
                    /\ mtie = <<>>
                    /\ diffs = 0

\* C5 witness: a direct call with 100,001 samples has failed.
C5_Witness ==
    /\ Done("mtie_complete")
    /\ tie.len = Usize(100001)
    /\ panic.kind = "too_large"

\* C6: run invokes the complete engine exactly when the sample count is at
\* most 100,000 and the fast engine exactly when it is larger, and never ends
\* in the complete engine's size-exceeded error.
C6_SelectorRoutes ==
    Done("run")
        => /\ engine = "complete" <=> (tie.len.hi = 0 /\ tie.len.lo <= 100000)
           /\ engine = "fast" <=> (tie.len.hi > 0 \/ tie.len.lo > 100000)
           /\ panic.kind # "too_large"

\* C6 witness: run on 100,001 samples took the fast engine.
C6_Witness ==
    Done("run") /\ tie.len = Usize(100001) /\ engine = "fast"

\* C7 (as claimed): on every input of N >= 2 samples the fast engine returns
\* floor(log2(N)) pairs, the k-th with tau 2^k - 1.  An input of 2^32 + n
\* samples (n < 2^31) has floor(log2(N)) = 32.
C7_FastShapeAnyN ==
    (Ran("fast") /\ (tie.len.hi > 0 \/ tie.len.lo >= 2))
        => /\ IF tie.len.hi = 0
              THEN IsFloorLog2(tie.len.lo, Len(mtie))
              ELSE Len(mtie) = 32
           /\ \A k \in 1..Len(mtie) : mtie[k][1] = pow(2, k) - 1

\* C7 (amended): on every input of N samples, 2 <= N < 2^32, the fast engine
\* returns floor(log2(N)) pairs, the k-th with tau 2^k - 1.
C7_FastShape ==
    (Ran("fast") /\ tie.len.hi = 0 /\ tie.len.lo >= 2)
        => /\ panic = NoPanic
           /\ IsFloorLog2(tie.len.lo, Len(mtie))
           /\ \A k \in 1..Len(mtie) : mtie[k][1] = pow(2, k) - 1

\* C7 witness: the fast engine returned three pairs for eight samples.
C7_Witness ==
    Ran("fast") /\ Plain /\ Count = 8 /\ Len(mtie) = 3

\* the samples form an arithmetic sequence with common difference m
IsArithmetic(m) ==
    \A j \in 1..(Count - 1) : tie.item[j] = tie.item[j - 1] + m

\* C8 (as claimed): on an arithmetic sequence with common difference m the
\* complete engine's value at every tau is m * tau.
C8_ArithmeticSigned ==
    (Ran("complete") /\ Plain /\ Count >= 2 /\ Count <= 100000)
        => LET m == tie.item[1] - tie.item[0]
           IN  IsArithmetic(m)
                   => \A tau \in 1..(Count - 1) :
                          tau \in DOMAIN mtie /\ mtie[tau] = <<tau, m * tau>>

\* C8 (amended): on an arithmetic sequence with common difference m the
\* complete engine's value at every tau is |m| * tau, which is 0 throughout
\* for a constant sequence.
C8_ArithmeticMagnitude ==
    (Ran("complete") /\ Plain /\ Count >= 2 /\ Count <= 100000)
        => LET m == tie.item[1] - tie.item[0]
               magnitude == IF m < 0 THEN 0 - m ELSE m
           IN  IsArithmetic(m)
                   => \A tau \in 1..(Count - 1) :
                          tau \in DOMAIN mtie /\ mtie[tau] = <<tau, magnitude * tau>>

\* C8 witness: the complete engine returned for a falling arithmetic sequence
\* of at least three samples.
C8_Witness ==
    /\ Ran("complete") /\ Plain /\ Count >= 3
    /\ tie.item[1] < tie.item[0]
    /\ IsArithmetic(tie.item[1] - tie.item[0])
    /\ Len(mtie) = Count - 1

\* the pyramid and the returned vector are as they should be over the first
\* N samples: for every level k with 2^k <= N and every window start i in
\* 1..N-2^k+1, a_M[k][i] and a_m[k][i] are the largest and the smallest of
\* the 2^k samples from position i on, the reads of level k-1 at i and
\* i + 2^(k-1) are within that level, and the value returned for
\* tau = 2^k - 1 is the largest a_M[k][i] - a_m[k][i] over those window starts
PyramidOver(N) ==
    /\ panic = NoPanic
    /\ \A k \in 1..N :
           pow(2, k) <= N
               => /\ k \in DOMAIN a_M /\ k \in DOMAIN a_m
                  /\ \A i \in 1..(N - pow(2, k) + 1) :
                         /\ i \in DOMAIN a_M[k] /\ i \in DOMAIN a_m[k]
                         /\ a_M[k][i] = Largest(Window(i - 1, i + pow(2, k) - 2))
                         /\ a_m[k][i] = Smallest(Window(i - 1, i + pow(2, k) - 2))
                         /\ k > 1 => /\ i \in DOMAIN a_M[k - 1]
                                     /\ i + pow(2, k - 1) \in DOMAIN a_M[k - 1]
                                     /\ i \in DOMAIN a_m[k - 1]
                                     /\ i + pow(2, k - 1) \in DOMAIN a_m[k - 1]
                  /\ k \in DOMAIN mtie
                  /\ mtie[k] = <<pow(2, k) - 1,
                                 Largest({a_M[k][i] - a_m[k][i] :
                                             i \in 1..(N - pow(2, k) + 1)})>>

\* C9 (as claimed): on every input of N >= 2 samples the pyramid holds, at
\* every level k in 1..k_max and every window start i in 1..N-2^k+1, the
\* largest and the smallest sample of the window, its reads of the level
\* below are in bounds, and the value returned for tau = 2^k - 1 is the
\* largest a_M[k][i] - a_m[k][i].  On 2^32 + n samples (n < 2^31) the window
\* starts of level 1 reach past n + 1, whichever k_max is meant.
C9_PyramidAnyN ==
    (Ran("fast") /\ (tie.len.hi > 0 \/ tie.len.lo >= 2))
        => /\ PyramidOver(tie.len.lo)
           /\ tie.len.hi > 0
                 => /\ 1 \in DOMAIN a_M
                    /\ tie.len.lo + 1 \in DOMAIN a_M[1]

\* C9 (amended): the same on every input of N samples, 2 <= N < 2^32.
C9_Pyramid ==
    (Ran("fast") /\ tie.len.hi = 0 /\ tie.len.lo >= 2)
        => PyramidOver(tie.len.lo)

\* C9 witness: a pyramid of three levels over samples that are not all equal.
C9_Witness ==
    /\ Ran("fast") /\ Plain /\ Count = 8
    /\ 3 \in DOMAIN a_M
    /\ a_M[3][1] > a_m[3][1]
    /\ a_M[2][1] < a_M[3][1]

\* C10: on 2 <= N <= 100,000 samples every pair the fast engine returns is a
\* pair the complete engine returns for the same samples.
C10_EnginesAgree ==
    (Ran("fast") /\ Plain /\ Count >= 2 /\ Count <= 100000)
        => \A n \in 1..Len(mtie) :
               \E j \in 1..Len(mtie_complete(tie).mtie) :
                   mtie_complete(tie).mtie[j] = mtie[n]

\* C10 witness: the fast engine returned three pairs with rising values.
C10_Witness ==
    /\ Ran("fast") /\ Plain /\ Len(mtie) = 3
    /\ mtie[1][2] < mtie[2][2]
    /\ mtie[2][2] < mtie[3][2]

====
